---- MODULE Spec2Model ----
(***************************************************************************)
(* kaigan: Borsh adapter types with an explicit length prefix              *)
(* (U8/U16/U64PrefixString, U8/U16/U32/U64PrefixVec<T>) or with no prefix  *)
(* at all (RemainderStr).                                                  *)
(*                                                                         *)
(* A Rust String is modelled as the sequence of its UTF-8 bytes (that is   *)
(* what String is), a Vec<T> of scalars as the sequence of its values, a   *)
(* byte as a number in 0..255.  usize is 64 bits wide; a usize is kept as  *)
(* its eight little-endian base-256 digits wherever it comes off the wire, *)
(* so that 32- and 64-bit prefixes keep their full width.                  *)
(***************************************************************************)
EXTENDS Integers, Sequences, FiniteSets, TLC

VARIABLES family, phase, writer, reader, expect, clean, ahead, calls, result

vars == <<family, phase, writer, reader, expect, clean, ahead, calls, result>>

----------------------------------------------------------------------------
(* Bounds of the model *)

\* longest short text (in characters) / short vec (in elements) handed to serialize
MaxLen == 2
\* number of serialize calls made on one writer
MaxFields == 2
\* longest payload (in bytes, resp. elements) of a hand-made input buffer
MaxRaw == 3

----------------------------------------------------------------------------
(* Numbers *)

\* number of values of a byte (u8)
ByteBase == 256

Min(a, b) == IF a < b THEN a ELSE b

\* the i-th little-endian base-256 digit of a natural number below 2^31
Digit(n, i) ==
    CASE i = 1 -> n % ByteBase
      [] i = 2 -> (n \div ByteBase) % ByteBase
      [] i = 3 -> (n \div (ByteBase * ByteBase)) % ByteBase
      [] i = 4 -> (n \div (ByteBase * ByteBase * ByteBase)) % ByteBase
      [] OTHER -> 0

\* size_of::<usize>() on the 64-bit target
UsizeBytes == 8

\* a length (items.len(), self.0.len()) as a usize: eight little-endian digits
AsUsize(n) == [i \in 1..UsizeBytes |-> Digit(n, i)]

\* `$prefix_type::deserialize(..)? as usize`: the prefix bytes, zero-extended
PrefixAsUsize(bytes) ==
    [i \in 1..UsizeBytes |-> IF i <= Len(bytes) THEN bytes[i] ELSE 0]

\* `$prefix_type::MAX as usize` for a prefix type of w bytes
PrefixMaxAsUsize(w) == [i \in 1..UsizeBytes |-> IF i <= w THEN ByteBase - 1 ELSE 0]

\* a > b on usize values
UsizeGt(a, b) ==
    \E i \in 1..UsizeBytes :
        /\ a[i] > b[i]
        /\ \A j \in (i + 1)..UsizeBytes : a[j] = b[j]

\* the value of a usize that is known to be below 2^31
UsizeToNat(d) ==
    d[1] + ByteBase * d[2] + ByteBase * ByteBase * d[3]
         + ByteBase * ByteBase * ByteBase * d[4]

\* mutant: the length written with to_be_bytes
PrefixBytes_BigEndian(n, w) == [i \in 1..w |-> Digit(n, w + 1 - i)]

\* `len as $prefix_type` followed by `$prefix_type::serialize`: the low w
\* digits of the length, little-endian
PrefixBytes(n, w) == [i \in 1..w |-> Digit(n, i)]

----------------------------------------------------------------------------
(* Errors and outcomes *)

NoValue == <<>>

Ok(v) == [status |-> "Ok", kind |-> "None", value |-> v]
Err(k) == [status |-> "Err", kind |-> k, value |-> NoValue]
\* the call does not return: it panics
Panic(k) == [status |-> "Panic", kind |-> k, value |-> NoValue]

----------------------------------------------------------------------------
(* The byte stream collaborators: io::Write and io::Read *)

\* Write::write_all on a writer: a Vec<u8> (unbounded) or a fixed `&mut [u8]`
\* of cap bytes, which takes what fits and then fails with WriteZero
write_all(wr, bytes) ==
    LET room == IF wr.bounded THEN Min(Len(bytes), wr.cap - Len(wr.buf))
                ELSE Len(bytes)
    IN  [ok |-> room = Len(bytes),
         kind |-> IF room = Len(bytes) THEN "None" ELSE "WriteZero",
         writer |-> [wr EXCEPT !.buf = @ \o SubSeq(bytes, 1, room)]]

Avail(r) == Len(r.buf) - r.pos

\* what the stream answers once no byte is left: a clean end (Ok(0)) or an
\* I/O error of its own
EndKind(r) == IF r.ending = "Eof" THEN "UnexpectedEof" ELSE "Other"

\* Read::read into a buffer of n bytes: at most n bytes, at most what is left
\* and at most what the stream hands over at once (chunk = 0: no such limit,
\* as for a slice)
read(r, n) ==
    LET m == IF r.chunk = 0 THEN Min(n, Avail(r))
             ELSE Min(Min(n, Avail(r)), r.chunk)
    IN  IF Avail(r) = 0 /\ r.ending = "Fault"
        THEN [ok |-> FALSE, kind |-> "Other", n |-> 0, bytes |-> <<>>,
              reader |-> r]
        ELSE [ok |-> TRUE, kind |-> "None", n |-> m,
              bytes |-> SubSeq(r.buf, r.pos + 1, r.pos + m),
              reader |-> [r EXCEPT !.pos = @ + m]]

\* Read::read_exact for a request of `want` bytes (a usize): fills the buffer
\* or fails, having taken whatever was left
read_exact(r, want) ==
    IF UsizeGt(want, AsUsize(Avail(r)))
    THEN [ok |-> FALSE, kind |-> EndKind(r), bytes |-> <<>>,
          reader |-> [r EXCEPT !.pos = Len(r.buf)]]
    ELSE LET n == UsizeToNat(want)
         IN  [ok |-> TRUE, kind |-> "None",
              bytes |-> SubSeq(r.buf, r.pos + 1, r.pos + n),
              reader |-> [r EXCEPT !.pos = @ + n]]

\* `vec![0u8; n]` / `Vec::with_capacity(n)` for n elements of `size` bytes:
\* more than isize::MAX bytes is a capacity-overflow panic (size is a power of
\* two here, so the top byte of n decides).  Any smaller request is taken to
\* be granted: the machine has the memory.
CapacityOverflow(length, size) == length[UsizeBytes] * size >= ByteBase \div 2

----------------------------------------------------------------------------
(* UTF-8 *)

IsCont(b) == b >= 128 /\ b <= 191

\* number of bytes of the sequence a lead byte opens, 0 for no lead byte
Utf8Width(b) ==
    CASE b <= 127 -> 1
      [] b >= 194 /\ b <= 223 -> 2
      [] b >= 224 /\ b <= 239 -> 3
      [] b >= 240 /\ b <= 244 -> 4
      [] OTHER -> 0

\* the second byte of a sequence, given its lead byte
SecondOk(lead, b) ==
    CASE lead = 224 -> b >= 160 /\ b <= 191
      [] lead = 237 -> b >= 128 /\ b <= 159
      [] lead = 240 -> b >= 144 /\ b <= 191
      [] lead = 244 -> b >= 128 /\ b <= 143
      [] OTHER -> IsCont(b)

\* String::from_utf8(bytes).is_ok(): every byte is a lead byte followed by its
\* continuation bytes, or a continuation byte of the lead byte before it
Utf8Valid(bytes) ==
    \A i \in 1..Len(bytes) :
        IF IsCont(bytes[i])
        THEN \E k \in 1..3 :
                /\ i - k >= 1
                /\ Utf8Width(bytes[i - k]) > k
                /\ \A j \in (i - k + 1)..(i - 1) : IsCont(bytes[j])
        ELSE LET wd == Utf8Width(bytes[i])
             IN  /\ wd >= 1
                 /\ i + wd - 1 <= Len(bytes)
                 /\ \A j \in 1..(wd - 1) : IsCont(bytes[i + j])
                 /\ wd >= 2 => SecondOk(bytes[i], bytes[i + 1])

\* number of chars of a String
CharCount(s) == Cardinality({i \in 1..Len(s) : ~IsCont(s[i])})

\* mutant: the byte appended to the text as it is
PushByteAsChar_Raw(c) == <<c>>

\* String::push(c as char) for a byte c: the UTF-8 form of U+0000..U+00FF
PushByteAsChar(c) ==
    IF c < 128 THEN <<c>> ELSE <<192 + (c \div 64), 128 + (c % 64)>>

----------------------------------------------------------------------------
(* Element types T of a PrefixVec<T>: fixed-width scalars *)

ElemTypes == {"u16", "bool"}

\* std::mem::size_of::<T>()
SizeOf(T) == IF T = "u16" THEN 2 ELSE 1

\* T::serialize: little-endian, size_of::<T>() bytes
T_serialize(T, v) == [i \in 1..SizeOf(T) |-> Digit(v, i)]

\* T::deserialize(&mut buffer.as_slice()): a bool is the byte 0 or 1, anything
\* else is an error of the element decoder
T_deserialize(T, bytes) ==
    IF T = "bool"
    THEN IF bytes[1] <= 1 THEN Ok(bytes[1]) ELSE Err("InvalidData")
    ELSE Ok(bytes[1] + ByteBase * bytes[2])

\* the items of a vec, each serialized in turn
ItemBytes(T, items) ==
    [j \in 1..(Len(items) * SizeOf(T)) |->
        T_serialize(T, items[((j - 1) \div SizeOf(T)) + 1])[((j - 1) % SizeOf(T)) + 1]]

----------------------------------------------------------------------------
(* prefix_string_types!: U8PrefixString, U16PrefixString, U64PrefixString *)

PrefixStringTypes == {1, 2, 8}

\* mutant: `>=` for `>`
TooBigForPrefix_OffByOne(n, w) ==
    UsizeGt(AsUsize(n), PrefixMaxAsUsize(w)) \/ AsUsize(n) = PrefixMaxAsUsize(w)

\* the length check of serialize: self.0.len() > $prefix_type::MAX as usize
TooBigForPrefix(n, w) == UsizeGt(AsUsize(n), PrefixMaxAsUsize(w))

\* mutant: the prefix counts the chars of the text, not its bytes
PrefixString_serialize_CharCount(w, s, wr) ==
    IF UsizeGt(AsUsize(CharCount(s)), PrefixMaxAsUsize(w))
    THEN [res |-> Err("InvalidData"), writer |-> wr, seen |-> {}]
    ELSE LET p == write_all(wr, [i \in 1..w |-> Digit(CharCount(s), i)])
         IN  IF ~p.ok
             THEN [res |-> Err(p.kind), writer |-> p.writer, seen |-> {p.kind}]
             ELSE LET b == write_all(p.writer, s)
                  IN  IF ~b.ok
                      THEN [res |-> Err(b.kind), writer |-> b.writer,
                            seen |-> {b.kind}]
                      ELSE [res |-> Ok(NoValue), writer |-> b.writer,
                            seen |-> {}]

PrefixString_serialize(w, s, wr) ==
    IF TooBigForPrefix(Len(s), w)
    THEN [res |-> Err("InvalidData"), writer |-> wr, seen |-> {}]
    ELSE LET p == write_all(wr, PrefixBytes(Len(s), w))
         IN  IF ~p.ok
             THEN [res |-> Err(p.kind), writer |-> p.writer, seen |-> {p.kind}]
             ELSE LET b == write_all(p.writer, s)
                  IN  IF ~b.ok
                      THEN [res |-> Err(b.kind), writer |-> b.writer,
                            seen |-> {b.kind}]
                      ELSE [res |-> Ok(NoValue), writer |-> b.writer,
                            seen |-> {}]

\* mutant: the payload is read with read_to_end and cut to the length
PrefixString_deserialize_reader_ReadsAll(w, r) ==
    LET pre == read_exact(r, AsUsize(w))
    IN  IF ~pre.ok
        THEN [res |-> Err(pre.kind), reader |-> pre.reader, seen |-> {pre.kind}]
        ELSE
        LET length == PrefixAsUsize(pre.bytes)
            rEnd == [r EXCEPT !.pos = Len(r.buf)]
        IN  IF UsizeGt(length, AsUsize(Avail(pre.reader)))
            THEN [res |-> Err(EndKind(r)), reader |-> rEnd, seen |-> {EndKind(r)}]
            ELSE LET bytes == SubSeq(r.buf, pre.reader.pos + 1,
                                     pre.reader.pos + UsizeToNat(length))
                 IN  IF ~Utf8Valid(bytes)
                     THEN [res |-> Err("InvalidData"), reader |-> rEnd,
                           seen |-> {"FromUtf8Error"}]
                     ELSE [res |-> Ok(bytes), reader |-> rEnd, seen |-> {}]

PrefixString_deserialize_reader(w, r) ==
    LET pre == read_exact(r, AsUsize(w))
    IN  IF ~pre.ok
        THEN [res |-> Err(pre.kind), reader |-> pre.reader, seen |-> {pre.kind}]
        ELSE
        LET length == PrefixAsUsize(pre.bytes)
        IN  IF CapacityOverflow(length, 1)
            THEN [res |-> Panic("CapacityOverflow"), reader |-> pre.reader,
                  seen |-> {}]
            ELSE
            LET body == read_exact(pre.reader, length)
            IN  IF ~body.ok
                THEN [res |-> Err(body.kind), reader |-> body.reader,
                      seen |-> {body.kind}]
                ELSE IF ~Utf8Valid(body.bytes)
                THEN [res |-> Err("InvalidData"), reader |-> body.reader,
                      seen |-> {"FromUtf8Error"}]
                ELSE [res |-> Ok(body.bytes), reader |-> body.reader,
                      seen |-> {}]

----------------------------------------------------------------------------
(* prefix_vec_types!: U8PrefixVec, U16PrefixVec, U32PrefixVec, U64PrefixVec *)

PrefixVecTypes == {1, 2, 4, 8}

\* mutant: the prefix counts the bytes of the items, not the items
PrefixVec_serialize_ByteLen(w, T, items, wr) ==
    IF TooBigForPrefix(Len(items) * SizeOf(T), w)
    THEN [res |-> Err("InvalidData"), writer |-> wr, seen |-> {}]
    ELSE LET p == write_all(wr, PrefixBytes(Len(items) * SizeOf(T), w))
         IN  IF ~p.ok
             THEN [res |-> Err(p.kind), writer |-> p.writer, seen |-> {p.kind}]
             ELSE LET b == write_all(p.writer, ItemBytes(T, items))
                  IN  IF ~b.ok
                      THEN [res |-> Err(b.kind), writer |-> b.writer,
                            seen |-> {b.kind}]
                      ELSE [res |-> Ok(NoValue), writer |-> b.writer,
                            seen |-> {}]

PrefixVec_serialize(w, T, items, wr) ==
    IF TooBigForPrefix(Len(items), w)
    THEN [res |-> Err("InvalidData"), writer |-> wr, seen |-> {}]
    ELSE LET p == write_all(wr, PrefixBytes(Len(items), w))
         IN  IF ~p.ok
             THEN [res |-> Err(p.kind), writer |-> p.writer, seen |-> {p.kind}]
             ELSE \* item.serialize(writer)? for each item: the items are
                  \* written in order up to the first write that fails
                  LET b == write_all(p.writer, ItemBytes(T, items))
                  IN  IF ~b.ok
                      THEN [res |-> Err(b.kind), writer |-> b.writer,
                            seen |-> {b.kind}]
                      ELSE [res |-> Ok(NoValue), writer |-> b.writer,
                            seen |-> {}]

\* One turn of the `while items.len() < length` loop with i items read so far.
\* Every earlier turn pushed an item, so it read item_length bytes exactly, and
\* this turn reads at i * item_length bytes past r1.
VecTurn(T, r1, i) ==
    LET item_length == SizeOf(T)
        rd == read([r1 EXCEPT !.pos = @ + i * item_length], item_length)
    IN  IF ~rd.ok
        THEN [tag |-> "err", res |-> Err(rd.kind), reader |-> rd.reader,
              seen |-> {rd.kind}]
        ELSE IF rd.n = 0
        THEN [tag |-> "break", res |-> Ok(NoValue), reader |-> rd.reader,
              seen |-> {}]
        ELSE IF rd.n = item_length
        THEN LET e == T_deserialize(T, rd.bytes)
             IN  IF e.status = "Ok"
                 THEN [tag |-> "push", res |-> e, reader |-> rd.reader,
                       seen |-> {}]
                 ELSE [tag |-> "err", res |-> e, reader |-> rd.reader,
                       seen |-> {e.kind}]
        ELSE [tag |-> "err", res |-> Err("InvalidData"), reader |-> rd.reader,
              seen |-> {}]

\* the loop condition: items.len() < length
VecLoopRuns(i, length) == UsizeGt(length, AsUsize(i))

\* the check after the loop: items.len() != length
VecLengthMismatch(n, length) == AsUsize(n) # length

PrefixVec_deserialize_reader(w, T, r) ==
    LET pre == read_exact(r, AsUsize(w))
    IN  IF ~pre.ok
        THEN [res |-> Err(pre.kind), reader |-> pre.reader, seen |-> {pre.kind}]
        ELSE
        LET length == PrefixAsUsize(pre.bytes)
            item_length == SizeOf(T)
            r1 == pre.reader
        IN  IF CapacityOverflow(length, item_length)
            THEN [res |-> Panic("CapacityOverflow"), reader |-> r1, seen |-> {}]
            ELSE
            LET \* the turns that end the loop early; none can lie beyond the
                \* last item the stream holds in full
                stops == {i \in 0..(Avail(r1) \div item_length) :
                            /\ VecLoopRuns(i, length)
                            /\ VecTurn(T, r1, i).tag # "push"}
                full == stops = {}
                n == IF full THEN UsizeToNat(length)
                     ELSE CHOOSE i \in stops : \A j \in stops : i <= j
                last == VecTurn(T, r1, n)
                items == [i \in 1..n |-> VecTurn(T, r1, i - 1).res.value]
                rEnd == IF full THEN [r1 EXCEPT !.pos = @ + n * item_length]
                        ELSE last.reader
            IN  IF ~full /\ last.tag = "err"
                THEN [res |-> last.res, reader |-> rEnd, seen |-> last.seen]
                ELSE IF VecLengthMismatch(n, length)
                THEN [res |-> Err("InvalidData"), reader |-> rEnd, seen |-> {}]
                ELSE [res |-> Ok(items), reader |-> rEnd, seen |-> {}]

----------------------------------------------------------------------------
(* RemainderStr *)

\* u8::deserialize_reader: one byte, or an error: borsh reports the end of the
\* input as InvalidData ("Unexpected length of input"), anything else as it is
u8_deserialize_reader(r) ==
    LET b == read_exact(r, AsUsize(1))
    IN  IF b.ok THEN [ok |-> TRUE, kind |-> "None", value |-> b.bytes[1],
                      reader |-> b.reader]
        ELSE [ok |-> FALSE,
              kind |-> IF b.kind = "UnexpectedEof" THEN "InvalidData" ELSE b.kind,
              value |-> 0, reader |-> b.reader]

\* while let Ok(c) = u8::deserialize_reader(reader) { value.push(c as char) }
RECURSIVE RemainderLoop(_, _)
RemainderLoop(r, value) ==
    LET c == u8_deserialize_reader(r)
    IN  IF c.ok
        THEN RemainderLoop(c.reader, value \o PushByteAsChar(c.value))
        ELSE [res |-> Ok(value), reader |-> c.reader, seen |-> {c.kind}]

RemainderStr_deserialize_reader(r) == RemainderLoop(r, <<>>)

\* for c in self.0.as_bytes() { c.serialize(writer)? }: the bytes are written
\* one by one up to the first write that fails
RemainderStr_serialize(s, wr) ==
    LET b == write_all(wr, s)
    IN  IF ~b.ok
        THEN [res |-> Err(b.kind), writer |-> b.writer, seen |-> {b.kind}]
        ELSE [res |-> Ok(NoValue), writer |-> b.writer, seen |-> {}]

----------------------------------------------------------------------------
(* The generated types and the calls on them *)

Families ==
    [kind : {"PrefixString"}, prefix : PrefixStringTypes, elem : {"bool"}]
    \cup [kind : {"PrefixVec"}, prefix : PrefixVecTypes, elem : ElemTypes]
    \cup [kind : {"RemainderStr"}, prefix : {0}, elem : {"bool"}]

serialize(fam, v, wr) ==
    CASE fam.kind = "PrefixString" -> PrefixString_serialize(fam.prefix, v, wr)
      [] fam.kind = "PrefixVec" -> PrefixVec_serialize(fam.prefix, fam.elem, v, wr)
      [] OTHER -> RemainderStr_serialize(v, wr)

deserialize_reader(fam, r) ==
    CASE fam.kind = "PrefixString" ->
            PrefixString_deserialize_reader(fam.prefix, r)
      [] fam.kind = "PrefixVec" ->
            PrefixVec_deserialize_reader(fam.prefix, fam.elem, r)
      [] OTHER -> RemainderStr_deserialize_reader(r)

\* mutant: bytes left in the slice are ignored
try_from_slice_IgnoresRest(fam, r) == deserialize_reader(fam, r)

\* BorshDeserialize::try_from_slice: deserialize from the slice, and fail if
\* bytes of it are left
try_from_slice(fam, r) ==
    LET d == deserialize_reader(fam, r)
    IN  IF d.res.status = "Ok" /\ Avail(d.reader) # 0
        THEN [res |-> Err("InvalidData"), reader |-> d.reader, seen |-> d.seen]
        ELSE d

----------------------------------------------------------------------------
(* The values handed to serialize *)

\* "A", "é" and "€" as Strings
Chars == {<<65>>, <<195, 169>>, <<226, 130, 172>>}

\* "string", the text of the tests
TestString == <<115, 116, 114, 105, 110, 103>>

RECURSIVE TextsUpTo(_)
TextsUpTo(n) ==
    IF n = 0 THEN {<<>>}
    ELSE LET shorter == TextsUpTo(n - 1)
         IN  shorter \cup {t \o c : t \in shorter, c \in Chars}

\* the lengths on both sides of u8::MAX for the types with a u8 prefix, and
\* on both sides of u16::MAX for U16PrefixString
LongLens(fam) ==
    CASE fam.prefix = 1 -> {ByteBase - 1, ByteBase}
      [] fam.prefix = 2 /\ fam.kind = "PrefixString" ->
            {ByteBase * ByteBase - 1, ByteBase * ByteBase}
      [] OTHER -> {}

\* "0".repeat(n)
Repeat0(n) == [i \in 1..n |-> 48]

ItemValues(T) == IF T = "u16" THEN {7, 258} ELSE {0, 1}

RECURSIVE VecsUpTo(_, _)
VecsUpTo(S, n) ==
    IF n = 0 THEN {<<>>}
    ELSE LET shorter == VecsUpTo(S, n - 1)
         IN  shorter \cup {Append(t, x) : t \in shorter, x \in S}

\* (0..n).collect::<Vec<_>>() of the tests, reduced to the values of T
Collect(T, n) == [i \in 1..n |-> IF T = "bool" THEN i % 2 ELSE i % ByteBase]

\* the first value written to a writer
FirstValues(fam) ==
    CASE fam.kind = "PrefixString" ->
            TextsUpTo(MaxLen) \cup {TestString}
                \cup {Repeat0(n) : n \in LongLens(fam)}
      [] fam.kind = "PrefixVec" ->
            VecsUpTo(ItemValues(fam.elem), MaxLen)
                \cup {Collect(fam.elem, n) : n \in LongLens(fam)}
      [] OTHER -> TextsUpTo(MaxLen) \cup {TestString}

\* the values written after it: of one char, resp. one item, at most
LaterValues(fam) ==
    IF fam.kind = "PrefixVec" THEN VecsUpTo(ItemValues(fam.elem), 1)
    ELSE TextsUpTo(1)

Values(fam, k) == IF k = 0 THEN FirstValues(fam) ELSE LaterValues(fam)

\* the writers a caller serializes into: a Vec<u8>, or a `&mut [u8]` of cap bytes
Writers ==
    {[buf |-> <<>>, bounded |-> FALSE, cap |-> 0]}
        \cup {[buf |-> <<>>, bounded |-> TRUE, cap |-> 7]}

----------------------------------------------------------------------------
(* The buffers handed to the decoders that no serialize call wrote *)

\* 'A', a lead byte of two, a continuation byte
RawBytes == {65, 195, 169}

\* a prefix of w bytes: its lowest byte lo, every higher byte hi
RawPrefix(w, lo, hi) == [i \in 1..w |-> IF i = 1 THEN lo ELSE hi]

\* the higher bytes: none set, all set, and for a u64 one more pattern that
\* stays below isize::MAX
RawHigh(w) == IF w = 8 THEN {0, 64, ByteBase - 1} ELSE {0, ByteBase - 1}

RawPrefixes(w) ==
    {RawPrefix(w, lo, hi) : lo \in (0..MaxRaw) \cup {ByteBase - 1}, hi \in RawHigh(w)}

\* 2 is no bool
RawItemValues(T) == IF T = "u16" THEN {7, 258} ELSE {0, 1, 2}

\* the first j bytes of one more item
PartialItem(j) == [i \in 1..j |-> 9]

\* deserialize_data of the tests: the prefix 6 and "string"
TestBuffer(w) == PrefixBytes(6, w) \o TestString

RawBuffers(fam) ==
    CASE fam.kind = "PrefixString" ->
            {p \o b : p \in RawPrefixes(fam.prefix), b \in VecsUpTo(RawBytes, MaxRaw)}
                \cup {SubSeq(RawPrefix(fam.prefix, 1, 0), 1, k) : k \in 0..(fam.prefix - 1)}
                \cup {TestBuffer(fam.prefix)}
      [] fam.kind = "PrefixVec" ->
            {p \o ItemBytes(fam.elem, v) \o PartialItem(j) :
                p \in RawPrefixes(fam.prefix),
                v \in VecsUpTo(RawItemValues(fam.elem), MaxRaw),
                j \in 0..(SizeOf(fam.elem) - 1)}
                \cup {SubSeq(RawPrefix(fam.prefix, 1, 0), 1, k) : k \in 0..(fam.prefix - 1)}
      [] OTHER -> VecsUpTo(RawBytes, MaxRaw)

\* how much a stream hands over per read call (0: all that is asked for, as a
\* slice does); it shows only where PrefixVec reads items of more than a byte,
\* the other reads are read_exact
Chunks(fam) ==
    IF fam.kind = "PrefixVec" /\ SizeOf(fam.elem) > 1 THEN {0, 1} ELSE {0}

Endings == {"Eof", "Fault"}

NoWriter == [buf |-> <<>>, bounded |-> TRUE, cap |-> 0]
NoReader == [buf |-> <<>>, pos |-> 0, chunk |-> 0, ending |-> "Eof"]
NoResult ==
    [op |-> "none", status |-> "None", kind |-> "None", value |-> NoValue,
     input |-> NoValue, from |-> 0, moved |-> 0, seen |-> {},
     hasExpected |-> FALSE, expected |-> NoValue]
Unknown == [known |-> FALSE, fields |-> <<>>]

----------------------------------------------------------------------------
(* The state machine: one type, one writer or reader, the calls made on it *)

Init ==
    /\ family \in Families
    /\ \/ /\ phase = "write"
          /\ writer \in Writers
          /\ reader = NoReader
       \/ /\ phase = "read"
          /\ writer = NoWriter
          /\ reader \in [buf : RawBuffers(family), pos : {0},
                         chunk : Chunks(family), ending : Endings]
    /\ expect = <<>>
    /\ clean = TRUE
    /\ ahead = Unknown
    /\ calls = 0
    /\ result = NoResult

\* value.serialize(&mut writer)
Serialize(v) ==
    /\ phase = "write"
    /\ calls < MaxFields
    /\ LET out == serialize(family, v, writer)
           moved == Len(out.writer.buf) - Len(writer.buf)
       IN  /\ writer' = out.writer
           /\ result' = [NoResult EXCEPT !.op = "serialize",
                            !.status = out.res.status, !.kind = out.res.kind,
                            !.input = v, !.from = Len(writer.buf),
                            !.moved = moved, !.seen = out.seen]
           /\ expect' = IF out.res.status = "Ok" THEN Append(expect, v) ELSE expect
           /\ clean' = (clean /\ (out.res.status = "Ok" \/ moved = 0))
    /\ calls' = calls + 1
    /\ UNCHANGED <<family, phase, reader, ahead>>

\* the caller reads back what was written: the bytes of the writer become a
\* stream (a slice, or any other Read)
Flip(chunk, ending) ==
    /\ phase = "write"
    /\ phase' = "read"
    /\ reader' = [buf |-> writer.buf, pos |-> 0, chunk |-> chunk, ending |-> ending]
    /\ ahead' = IF clean THEN [known |-> TRUE, fields |-> expect] ELSE Unknown
    /\ calls' = 0
    /\ result' = NoResult
    /\ UNCHANGED <<family, writer, expect, clean>>

RECURSIVE Concat(_)
Concat(ss) == IF ss = <<>> THEN <<>> ELSE Head(ss) \o Concat(Tail(ss))

\* whether the values written tell what the next decode call has to return,
\* and what: the next field, for RemainderStr all that is left
HasExpected(fam, a, whole) ==
    /\ a.known
    /\ a.fields # <<>>
    /\ (whole /\ fam.kind # "RemainderStr") => Len(a.fields) = 1

Expected(fam, a) ==
    IF fam.kind = "RemainderStr" THEN Concat(a.fields) ELSE Head(a.fields)

Decoded(op, out, whole) ==
    /\ result' = [NoResult EXCEPT !.op = op,
                    !.status = out.res.status, !.kind = out.res.kind,
                    !.value = out.res.value, !.from = reader.pos,
                    !.moved = out.reader.pos - reader.pos, !.seen = out.seen,
                    !.hasExpected = HasExpected(family, ahead, whole),
                    !.expected = IF HasExpected(family, ahead, whole)
                                 THEN Expected(family, ahead) ELSE NoValue]
    /\ reader' = out.reader
    /\ phase' = IF out.res.status = "Panic" THEN "dead" ELSE phase
    /\ ahead' = IF out.res.status = "Ok" /\ ahead.known /\ ahead.fields # <<>>
                THEN IF family.kind = "RemainderStr"
                     THEN [known |-> TRUE, fields |-> <<>>]
                     ELSE [known |-> TRUE, fields |-> Tail(ahead.fields)]
                ELSE Unknown
    /\ calls' = calls + 1
    /\ UNCHANGED <<family, writer, expect, clean>>

\* T::deserialize_reader(&mut reader)
Deserialize ==
    /\ phase = "read"
    /\ calls < MaxFields
    /\ Decoded("deserialize_reader", deserialize_reader(family, reader), FALSE)

\* T::try_from_slice(&data[pos..])
TryFromSlice ==
    /\ phase = "read"
    /\ calls < MaxFields
    /\ reader.chunk = 0
    /\ reader.ending = "Eof"
    /\ Decoded("try_from_slice", try_from_slice(family, reader), TRUE)

Next ==
    \/ \E v \in Values(family, calls) : Serialize(v)
    \/ \E chunk \in Chunks(family), ending \in Endings : Flip(chunk, ending)
    \/ Deserialize
    \/ TryFromSlice

Spec == Init /\ [][Next]_vars

----------------------------------------------------------------------------
(* What the claims speak of, stated apart from the code above *)

DecodeOps == {"deserialize_reader", "try_from_slice"}

Prefixed == {"PrefixString", "PrefixVec"}

\* n <= 2^(8w) - 1; every length of the model is below 2^31
FitsWidth(n, w) ==
    CASE w = 1 -> n <= 255
      [] w = 2 -> n <= 65535
      [] OTHER -> TRUE

\* size of one element on the wire: a byte of text, or an item of the vec
WireSize(fam) == IF fam.kind = "PrefixVec" THEN SizeOf(fam.elem) ELSE 1

\* the bytes the last decode call started at
Before == result.from
Left == Len(reader.buf) - Before

\* the stream held a whole prefix when the call started
PrefixPresent == Left >= family.prefix

\* the prefix the call read declares fewer than 2^16 elements, and how many
DeclaredSmall ==
    \A i \in 3..family.prefix : reader.buf[Before + i] = 0
Declared ==
    reader.buf[Before + 1]
        + (IF family.prefix >= 2 THEN 256 * reader.buf[Before + 2] ELSE 0)

\* the number of whole elements the stream held after the prefix
WholeElements == (Left - family.prefix) \div WireSize(family)

AllAscii(s) == \A i \in 1..Len(s) : s[i] < 128

\* C1: a text whose length fits the prefix, encoded and then decoded, comes
\* back as written: the decode succeeds and returns the same bytes.
C1_TextRoundTrip ==
    (family.kind = "PrefixString" /\ result.op \in DecodeOps /\ result.hasExpected)
        => /\ result.status = "Ok"
           /\ Len(result.value) = Len(result.expected)
           /\ result.value = result.expected

C1_Witness ==
    /\ family.kind = "PrefixString"
    /\ result.op \in DecodeOps
    /\ result.hasExpected
    /\ Len(result.expected) = 255
    /\ result.value = result.expected

\* C2: a vec of fixed-width scalars whose count fits the prefix, encoded and
\* then decoded from the bytes produced (a stream that fills every read while
\* bytes are left, as a slice does), comes back with the same items in order.
C2_VecRoundTrip ==
    (family.kind = "PrefixVec" /\ result.op \in DecodeOps /\ result.hasExpected
        /\ reader.chunk = 0)
        => /\ result.status = "Ok"
           /\ Len(result.value) = Len(result.expected)
           /\ \A i \in 1..Len(result.expected) :
                 result.value[i] = result.expected[i]

C2_Witness ==
    /\ family.kind = "PrefixVec"
    /\ family.elem = "u16"
    /\ result.op \in DecodeOps
    /\ result.hasExpected
    /\ Len(result.expected) = 255
    /\ result.status = "Ok"
    /\ result.value = result.expected

\* C3: serialize of a prefixed text or vec fails with InvalidData exactly when
\* the length does not fit the prefix (255 fits a u8, 256 does not); then
\* nothing is written; a length that fits is written to a writer with room.
C3_OverflowRejected ==
    (family.kind \in Prefixed /\ result.op = "serialize")
        => LET fits == FitsWidth(Len(result.input), family.prefix)
           IN  /\ (result.status = "Err" /\ result.kind = "InvalidData") <=> ~fits
               /\ ~fits => (result.moved = 0 /\ Len(writer.buf) = result.from)
               /\ (fits /\ ~writer.bounded) => result.status = "Ok"

C3_Witness ==
    /\ family.kind = "PrefixVec"
    /\ family.prefix = 1
    /\ result.op = "serialize"
    /\ Len(result.input) = 256
    /\ result.status = "Err"
    /\ result.kind = "InvalidData"
    /\ writer.buf = <<>>

\* C4: a PrefixVec decode whose stream ends, or gives part of an element,
\* before the declared number of whole elements returns an InvalidData error;
\* no successful decode holds fewer elements than declared.
C4_TruncatedRejected ==
    (family.kind = "PrefixVec" /\ result.op \in DecodeOps /\ PrefixPresent)
        => /\ (reader.ending = "Eof"
                /\ (~DeclaredSmall \/ WholeElements < Declared))
              => (result.status = "Err" /\ result.kind = "InvalidData")
           /\ result.status = "Ok"
              => (DeclaredSmall /\ Len(result.value) = Declared)

\* C5: try_from_slice of a PrefixVec fails with InvalidData whenever the
\* buffer holds more bytes than the prefix and the declared elements.
C5_SurplusRejected ==
    (family.kind = "PrefixVec" /\ result.op = "try_from_slice" /\ PrefixPresent
        /\ DeclaredSmall
        /\ Left - family.prefix > Declared * WireSize(family))
        => (result.status = "Err" /\ result.kind = "InvalidData")

C5_Witness ==
    /\ family.kind = "PrefixVec"
    /\ family.prefix = 8
    /\ family.elem = "u16"
    /\ result.op = "try_from_slice"
    /\ Before = 0
    /\ PrefixPresent
    /\ DeclaredSmall
    /\ Declared = 2
    /\ Left - family.prefix = 3 * WireSize(family)
    /\ result.status = "Err"
    /\ result.kind = "InvalidData"

\* C6: whenever the byte stream or an element or byte decoder returned an
\* error during a call, the call returns an error.
C6_NoErrorSwallowed == result.seen # {} => result.status = "Err"

\* C7: a RemainderStr decode takes every byte left and makes a char of each:
\* what was encoded comes back equal when all of it is ASCII, and different,
\* with more chars, when it is not.
C7_RemainderAscii ==
    (family.kind = "RemainderStr" /\ result.op \in DecodeOps /\ result.hasExpected)
        => /\ result.status = "Ok"
           /\ reader.pos = Len(reader.buf)
           /\ result.moved = Left
           /\ AllAscii(result.expected) => result.value = result.expected
           /\ ~AllAscii(result.expected)
                => /\ result.value # result.expected
                   /\ CharCount(result.value) > CharCount(result.expected)

C7_Witness ==
    /\ family.kind = "RemainderStr"
    /\ result.op \in DecodeOps
    /\ result.hasExpected
    /\ result.expected = <<195, 169>>
    /\ result.status = "Ok"
    /\ CharCount(result.value) = 2

\* the buffers of the tests: the length 6 in w little-endian bytes, "string"
LiteralBuffer(w) ==
    CASE w = 1 -> <<6, 115, 116, 114, 105, 110, 103>>
      [] w = 2 -> <<6, 0, 115, 116, 114, 105, 110, 103>>
      [] OTHER -> <<6, 0, 0, 0, 0, 0, 0, 0, 115, 116, 114, 105, 110, 103>>

\* the bytes the last serialize call wrote
Wrote == SubSeq(writer.buf, result.from + 1, result.from + result.moved)

\* C8: a successful serialize of a prefixed text of L bytes writes w + L
\* bytes: L, little-endian in w bytes, then the bytes of the text; "string"
\* gives the buffers of the tests, and those decode to "string".
C8_WireLayout ==
    /\ (family.kind = "PrefixString" /\ result.op = "serialize"
            /\ result.status = "Ok")
        => LET w == family.prefix
               L == Len(result.input)
           IN  /\ result.moved = w + L
               /\ Wrote[1] + (IF w >= 2 THEN 256 * Wrote[2] ELSE 0) = L
               /\ \A i \in 3..w : Wrote[i] = 0
               /\ \A i \in 1..L : Wrote[w + i] = result.input[i]
               /\ result.input = TestString => Wrote = LiteralBuffer(w)
    /\ (family.kind = "PrefixString" /\ result.op \in DecodeOps /\ Before = 0
            /\ reader.buf = LiteralBuffer(family.prefix))
        => (result.status = "Ok" /\ result.value = TestString)

C8_Witness ==
    /\ family.kind = "PrefixString"
    /\ family.prefix = 8
    /\ result.op = "serialize"
    /\ result.status = "Ok"
    /\ result.input = TestString
    /\ Len(writer.buf) = 14

\* C9: a PrefixString decode from a stream that ends fails with the stream's
\* UnexpectedEof when the prefix or the payload is short, and with InvalidData
\* when the payload is there and is not UTF-8; no text is returned then.
C9_TextDecodeErrors ==
    (family.kind = "PrefixString" /\ result.op \in DecodeOps
        /\ reader.ending = "Eof")
        => LET short == \/ ~PrefixPresent
                        \/ ~DeclaredSmall
                        \/ WholeElements < Declared
           IN  /\ short => (result.status = "Err" /\ result.kind = "UnexpectedEof")
               /\ (~short /\ ~Utf8Valid(SubSeq(reader.buf,
                                               Before + family.prefix + 1,
                                               Before + family.prefix + Declared)))
                    => (result.status = "Err" /\ result.kind = "InvalidData")

\* C10: a successful decode of a prefixed text or vec reads the prefix and the
\* N elements it declares and no byte more, so that two fields decoded one
\* after the other from their encodings, one behind the other, both come back.
C10_ExactConsumption ==
    /\ (family.kind \in Prefixed /\ result.op = "deserialize_reader"
            /\ result.status = "Ok")
        => /\ DeclaredSmall
           /\ result.moved = family.prefix + Declared * WireSize(family)
           /\ reader.pos = Before + result.moved
    /\ (family.kind \in Prefixed /\ result.op = "deserialize_reader"
            /\ calls = 2 /\ result.hasExpected /\ reader.chunk = 0)
        => (result.status = "Ok" /\ result.value = result.expected)

C10_Witness ==
    /\ family.kind = "PrefixVec"
    /\ result.op = "deserialize_reader"
    /\ calls = 2
    /\ Before > 0
    /\ result.hasExpected
    /\ Len(result.expected) = 1
    /\ result.status = "Ok"
    /\ result.value = result.expected
    /\ reader.pos = Len(reader.buf)

====
